---- MODULE Spec2Model ----
(***************************************************************************)
(* A model of ext4extract.py: the Ext4 volume handle (load, _read_inode,   *)
(* _read_data, _read_extent, read_dir, read_file, read_link, read_xattr,   *)
(* read_meta, root) over a backing file of bytes.                          *)
(*                                                                         *)
(* The backing file is a byte array; every record is decoded from its      *)
(* bytes with the little-endian layouts of the struct formats of lines     *)
(* 29-38.  The module-level helpers make_* of lines 221-258 are modelled   *)
(* as the decoders the methods call.                                       *)
(***************************************************************************)
EXTENDS Integers, Sequences, FiniteSets, TLC

\* vol:        the description the backing file was laid out from
\* image:      the backing file
\* ext4:       self._ext4, the file object and its position
\* superblock: self._superblock, <<>> for None
\* block_size: self._block_size
\* call:       the last method called on the handle, with its argument
\* result:     what that call returned or raised
\* iolog:      the seeks and reads that call made on the file object
VARIABLES vol, image, ext4, superblock, block_size, call, result, iolog,
          scan, last, conc

vars == <<vol, image, ext4, superblock, block_size, call, result, iolog,
          scan, last, conc>>

----------------------------------------------------------------------------
(* Integers and byte buffers *)

\* The element of a one-element set.  A value computed once is written
\* The({e(x) : x \in {v}}): x stands for the value of v in e.
The(S) == CHOOSE x \in S : TRUE

Min(a, b) == IF a <= b THEN a ELSE b

Max(a, b) == IF a >= b THEN a ELSE b

RECURSIVE Pow2(_)
Pow2(n) == IF n = 0 THEN 1 ELSE 2 * Pow2(n - 1)

\* Python's x & y on non-negative integers
RECURSIVE BitAnd(_, _)
BitAnd(x, y) ==
    IF x = 0 \/ y = 0 THEN 0
    ELSE (x % 2) * (y % 2) + 2 * BitAnd(x \div 2, y \div 2)

\* Python's b[lo:hi] on a buffer (0-based, clamped to the buffer)
Slice(b, lo, hi) ==
    LET l == Min(Max(lo, 0), Len(b))
        h == Min(Max(hi, 0), Len(b))
    IN  IF h <= l THEN <<>> ELSE SubSeq(b, l + 1, h)

Zeros(n) == [i \in 1..n |-> 0]

\* struct.unpack's "<B", "<H", "<I" at byte offset o of a buffer
U8(b, o) == b[o + 1]

U16(b, o) == b[o + 1] + 256 * b[o + 2]

\* Integers here end at 2^31 - 1: a field from 2^31 on stands for 2^31 - 1.
\* The volumes hold such values only where a read went astray.
INT_MAX == (2 * (Pow2(30) - 1)) + 1

U32(b, o) ==
    IF b[o + 4] >= 128 THEN INT_MAX
    ELSE b[o + 1] + 256 * b[o + 2] + 65536 * b[o + 3] + 16777216 * b[o + 4]

----------------------------------------------------------------------------
(* The backing file and the file object self._ext4 *)

\* The byte at offset o of the backing file.  The file is kept block by
\* block: a block is either a data block, whose bytes are a pattern that
\* depends on the position, or a block with the bytes written, zero after
\* them.
ByteAt(img, o) ==
    LET blk == img.blk[(o \div img.bs) + 1]
        j   == o % img.bs
    IN  IF blk.pat THEN 1 + (o % 127)
        ELSE IF j < Len(blk.b) THEN blk.b[j + 1]
        ELSE 0

NoFile == [open |-> FALSE, pos |-> 0]

\* open(filename, "rb"): a file object at position 0
FileOpen == [f |-> [open |-> TRUE, pos |-> 0], log |-> <<>>]

\* A seek relative to the current position
FileSeekRelative(h, off) ==
    [f |-> [h.f EXCEPT !.pos = h.f.pos + off],
     log |-> Append(h.log, <<"seek", h.f.pos + off>>)]

\* file.seek(off): sets the position; the io record h carries the file
\* object and the trace of seeks and reads made so far
FileSeek(h, off) ==
    [f |-> [h.f EXCEPT !.pos = off], log |-> Append(h.log, <<"seek", off>>)]

\* The bytes file.read(n) returns at the current position: n bytes, fewer at
\* the end of the file, all the rest for a negative n
FileData(img, h, n) ==
    LET left == Max(0, Len(img.blk) * img.bs - h.f.pos)
        cnt  == IF n < 0 THEN left ELSE Min(n, left)
    IN  SubSeq([i \in 1..cnt |-> ByteAt(img, h.f.pos + i - 1)], 1, cnt)

\* file.read(n): the position advances by the bytes returned
FileRead(img, h, n) ==
    The({[h |-> [f |-> [h.f EXCEPT !.pos = h.f.pos + Len(d)],
                 log |-> Append(h.log, <<"read", h.f.pos, Len(d)>>)],
          data |-> d] :
         d \in {FileData(img, h, n)}})

----------------------------------------------------------------------------
(* Record decoders (the fields the methods use) *)

SUPERBLOCK_SIZE == 256

make_superblock(data) ==
    [s_first_data_block |-> U32(data, 20),
     s_log_block_size   |-> U32(data, 24),
     s_inodes_per_group |-> U32(data, 40),
     s_magic            |-> U16(data, 56),
     s_inode_size       |-> U16(data, 88),
     s_feature_incompat |-> U32(data, 96),
     s_desc_size        |-> U16(data, 254)]

GROUP_DESCRIPTOR_SIZE == 32

make_group_descriptor(data) == [bg_inode_table_lo |-> U32(data, 8)]

INODE_SIZE == 128

make_inode(data) ==
    [i_mode        |-> U16(data, 0),
     i_uid         |-> U16(data, 2),
     i_size_lo     |-> U32(data, 4),
     i_atime       |-> U32(data, 8),
     i_ctime       |-> U32(data, 12),
     i_mtime       |-> U32(data, 16),
     i_gid         |-> U16(data, 24),
     i_flags       |-> U32(data, 32),
     i_block       |-> SubSeq(data, 41, 100),
     i_file_acl_lo |-> U32(data, 104)]

make_extent_header(data) ==
    [eh_magic   |-> U16(data, 0),
     eh_entries |-> U16(data, 2),
     eh_max     |-> U16(data, 4),
     eh_depth   |-> U16(data, 6)]

make_extent_index(data) ==
    [ei_block |-> U32(data, 0), ei_leaf_lo |-> U32(data, 4)]

make_extent_entry(data) ==
    [ee_block    |-> U32(data, 0),
     ee_len      |-> U16(data, 4),
     ee_start_hi |-> U16(data, 6),
     ee_start_lo |-> U32(data, 8)]

DIR_ENTRY_SIZE == 8

make_dir_entry(data) ==
    [inode    |-> U32(data, 0),
     rec_len  |-> U16(data, 4),
     name_len |-> U16(data, 6)]

make_dir_entry_v2(data) ==
    [inode     |-> U32(data, 0),
     rec_len   |-> U16(data, 4),
     name_len  |-> U8(data, 6),
     file_type |-> U8(data, 7)]

XATTR_HEADER_SIZE == 32

\* h_magic is kept as its two 16-bit halves, low half first
make_xattr_header(data) ==
    [h_magic  |-> <<U16(data, 0), U16(data, 2)>>,
     h_blocks |-> U32(data, 8)]

XATTR_ENTRY_SIZE == 16

make_xattr_entry(data) ==
    [e_name_len   |-> U8(data, 0),
     e_name_index |-> U8(data, 1),
     e_value_offs |-> U16(data, 2),
     e_value_inum |-> U32(data, 4),
     e_value_size |-> U32(data, 8)]

\* bytes.decode('utf-8'): the code points of a buffer, or the failure of a
\* strict decoder on an invalid or truncated sequence
Cont(b, i) == i <= Len(b) /\ b[i] \in 128..191

\* The length of the well-formed sequence that starts at b[i], 0 for none
Utf8Width(b, i) ==
    IF b[i] < 128 THEN 1
    ELSE IF b[i] \in 194..223 /\ Cont(b, i + 1) THEN 2
    ELSE IF /\ b[i] \in 224..239
            /\ Cont(b, i + 1) /\ Cont(b, i + 2)
            /\ (b[i] = 224 => b[i + 1] >= 160)
            /\ (b[i] = 237 => b[i + 1] <= 159)
    THEN 3
    ELSE IF /\ b[i] \in 240..244
            /\ Cont(b, i + 1) /\ Cont(b, i + 2) /\ Cont(b, i + 3)
            /\ (b[i] = 240 => b[i + 1] >= 144)
            /\ (b[i] = 244 => b[i + 1] <= 143)
    THEN 4
    ELSE 0

\* The code point of the well-formed sequence that starts at b[i]
Utf8Point(b, i) ==
    CASE Utf8Width(b, i) = 2 -> (b[i] - 192) * 64 + (b[i + 1] - 128)
      [] Utf8Width(b, i) = 3 -> (b[i] - 224) * 4096 + (b[i + 1] - 128) * 64
                                + (b[i + 2] - 128)
      [] Utf8Width(b, i) = 4 -> (b[i] - 240) * 262144 + (b[i + 1] - 128) * 4096
                                + (b[i + 2] - 128) * 64 + (b[i + 3] - 128)
      [] OTHER -> b[i]

\* The buffer decodes when every byte that is no continuation byte starts a
\* well-formed sequence and every continuation byte belongs to one: the
\* decoder, going from sequence to sequence, then meets exactly the former
Utf8Decode(b) ==
    LET Start(i) == ~Cont(b, i)
        ok == \A i \in 1..Len(b) :
                 IF Start(i) THEN Utf8Width(b, i) > 0
                 ELSE \E k \in 1..3 : /\ i - k >= 1
                                      /\ Start(i - k)
                                      /\ Utf8Width(b, i - k) > k
                                      /\ \A j \in (i - k + 1)..(i - 1) : Cont(b, j)
    IN  IF ok
        THEN LET at == SelectSeq([i \in 1..Len(b) |-> i], Start)
             IN  [ok |-> TRUE, s |-> [j \in 1..Len(at) |-> Utf8Point(b, at[j])]]
        ELSE [ok |-> FALSE, s |-> <<>>]

decode_utf8(b) == Utf8Decode(b)

----------------------------------------------------------------------------
(* Ext4.load *)

EXT4_MAGIC == 61267

UNSUPPORTED == <<1, 4, 16, 128, 4096, 16384, 65536>>

\* The first f_id of the list with incompat & f_id set, 0 when there is none
RECURSIVE FirstUnsupported(_, _)
FirstUnsupported(incompat, i) ==
    IF i > Len(UNSUPPORTED) THEN 0
    ELSE IF BitAnd(incompat, UNSUPPORTED[i]) # 0 THEN UNSUPPORTED[i]
    ELSE FirstUnsupported(incompat, i + 1)

\* A magic test against the byte-swapped constant
MagicRejectedSwapped(sb) == sb.s_magic # 21487

\* The superblock magic test of load (line 333)
MagicRejected(sb) == sb.s_magic # EXT4_MAGIC

\* The block size load computes (line 339)
BlockSizeOf(sb) == Pow2(10 + sb.s_log_block_size)

\* load(filename) on a handle whose fields are sb0 and bs0: the handle's
\* fields afterwards and the error raised ("" for none)
load(img, sb0, bs0) ==
    The({IF Len(r.data) # SUPERBLOCK_SIZE
         THEN [h |-> r.h, superblock |-> sb0, block_size |-> bs0,
               err |-> "struct.error", bit |-> 0]
         ELSE
         The({LET f == FirstUnsupported(sb.s_feature_incompat, 1)
              IN  IF MagicRejected(sb)
                  THEN [h |-> r.h, superblock |-> <<sb>>, block_size |-> bs0,
                        err |-> "Bad superblock magic", bit |-> 0]
                  ELSE IF f # 0
                  THEN [h |-> r.h, superblock |-> <<sb>>, block_size |-> bs0,
                        err |-> "Unsupported feature", bit |-> f]
                  ELSE [h |-> r.h, superblock |-> <<sb>>,
                        block_size |-> BlockSizeOf(sb), err |-> "", bit |-> 0] :
              sb \in {make_superblock(r.data)}}) :
         r \in {FileRead(img, FileSeek(FileOpen, 1024), SUPERBLOCK_SIZE)}})

----------------------------------------------------------------------------
(* Ext4._read_group_descriptor, _read_inode, _read_extent, _read_data      *)
(*                                                                         *)
(* Each operator takes the handle's fields c = [img, sb, bs] (the backing  *)
(* file, self._superblock, self._block_size) and the io record h, and      *)
(* returns the io record afterwards, the error raised ("" for none) and    *)
(* its value.                                                              *)

\* A product of two unsigned fields used as a position.  Python's integers
\* are unbounded; here every position from FAR on stands for FAR, which
\* lies past the end of every image and of every buffer, so that seeks,
\* reads and slices behave as at the true position.
FAR == Pow2(29)

Mul(a, b) == IF b > 0 /\ a > FAR \div b THEN FAR ELSE Min(a * b, FAR)

\* file.seek raises ValueError on a negative offset
SeekErr(off) == IF off < 0 THEN "ValueError" ELSE ""

\* The byte offset _read_group_descriptor seeks to (line 279)
GdOffset(c, bg_num) ==
    Mul(c.sb.s_first_data_block + 1, c.bs) + Mul(bg_num, c.sb.s_desc_size)

read_group_descriptor(c, h, bg_num) ==
    The({IF SeekErr(gd_offset) # ""
         THEN [h |-> h, err |-> SeekErr(gd_offset), gd |-> <<>>]
         ELSE
         The({IF Len(r.data) # GROUP_DESCRIPTOR_SIZE
              THEN [h |-> r.h, err |-> "struct.error", gd |-> <<>>]
              ELSE [h |-> r.h, err |-> "", gd |-> make_group_descriptor(r.data)] :
              r \in {FileRead(c.img, FileSeek(h, gd_offset),
                              GROUP_DESCRIPTOR_SIZE)}}) :
         gd_offset \in {GdOffset(c, bg_num)}})

\* The byte offset _read_inode seeks to (lines 288-290)
InodeOffset(c, group_desc, bg_inode_idx) ==
    Mul(group_desc.bg_inode_table_lo, c.bs)
    + Mul(bg_inode_idx, c.sb.s_inode_size)

read_inode(c, h, inode_num) ==
    IF c.sb.s_inodes_per_group = 0
    THEN [h |-> h, err |-> "ZeroDivisionError", inode |-> <<>>]
    ELSE
    LET inode_bg_num == (inode_num - 1) \div c.sb.s_inodes_per_group
        bg_inode_idx == (inode_num - 1) % c.sb.s_inodes_per_group
    IN  The({IF g.err # "" THEN [h |-> g.h, err |-> g.err, inode |-> <<>>]
             ELSE
             The({IF Len(r.data) # INODE_SIZE
                  THEN [h |-> r.h, err |-> "struct.error", inode |-> <<>>]
                  ELSE [h |-> r.h, err |-> "", inode |-> make_inode(r.data)] :
                  r \in {FileRead(c.img,
                                  FileSeek(g.h, InodeOffset(c, g.gd, bg_inode_idx)),
                                  INODE_SIZE)}}) :
             g \in {read_group_descriptor(c, h, inode_bg_num)}})

EXTENT_MAGIC == 62218

\* bytearray slice assignment data[start:start + size] = new: the slice is
\* clamped to the buffer and replaced by new, whatever new's length
SliceAssign(data, start, size, new) ==
    Slice(data, 0, start) \o new \o Slice(data, Min(Max(start + size, start), Len(data)), Len(data))

\* The extent's physical position taken for its place in the buffer
ExtentStartPhysical(c, entry) == Mul(entry.ee_start_lo, c.bs)

\* The byte offset in the output buffer an extent's bytes are written at
ExtentStart(c, entry) == Mul(entry.ee_block, c.bs)

\* _read_extent(data, extent_block).  path holds the blocks of the index
\* records being followed; nest is the number of _read_extent frames on the
\* stack.  The value is the buffer, the deepest nesting reached, and
\* whether every child node declared its parent's depth minus one.  An
\* index record that leads back to a block of path is followed without
\* end: the frames pile up until Python raises RecursionError.
RECURSIVE ReadExtent(_, _, _, _, _, _)
\* A child node with a valid header declares its parent's depth minus one
ChildStepsDown(hdr, child) ==
    (Len(child) >= 12 /\ make_extent_header(Slice(child, 0, 12)).eh_magic = EXTENT_MAGIC)
        => make_extent_header(Slice(child, 0, 12)).eh_depth = hdr.eh_depth - 1

RECURSIVE ExtentLoop(_, _, _, _, _, _, _, _)

ReadExtent(c, h, data, extent_block, path, nest) ==
    IF Len(extent_block) < 12
    THEN [h |-> h, err |-> "struct.error", data |-> data, nest |-> nest,
          stepdown |-> TRUE]
    ELSE
    The({IF hdr.eh_magic # EXTENT_MAGIC
         THEN [h |-> h, err |-> "Bad extent magic", data |-> data,
               nest |-> nest, stepdown |-> TRUE]
         ELSE ExtentLoop(c, h, data, extent_block, hdr, 0, path, nest) :
         hdr \in {make_extent_header(Slice(extent_block, 0, 12))}})

ExtentLoop(c, h, data, extent_block, hdr, eex, path, nest) ==
    IF eex >= hdr.eh_entries
    THEN [h |-> h, err |-> "", data |-> data, nest |-> nest,
          stepdown |-> TRUE]
    ELSE
    LET raw_offset == 12 + (eex * 12)
        entry_raw  == Slice(extent_block, raw_offset, raw_offset + 12)
    IN  IF Len(entry_raw) # 12
        THEN [h |-> h, err |-> "struct.error", data |-> data, nest |-> nest,
              stepdown |-> TRUE]
        ELSE IF hdr.eh_depth = 0
        THEN
            The({LET start == ExtentStart(c, entry)
                     size  == entry.ee_len * c.bs
                 IN  The({ExtentLoop(c, r.h, new, extent_block, hdr, eex + 1,
                                     path, nest) :
                          new \in {SliceAssign(data, start, size, r.data)}}) :
                 entry \in {make_extent_entry(entry_raw)},
                 r \in {FileRead(c.img,
                                 FileSeek(h, Mul(make_extent_entry(entry_raw).ee_start_lo,
                                                 c.bs)),
                                 make_extent_entry(entry_raw).ee_len * c.bs)}})
        ELSE
            The({IF index.ei_leaf_lo \in path
                 THEN [h |-> r.h, err |-> "RecursionError", data |-> data,
                       nest |-> nest + 1, stepdown |-> FALSE]
                 ELSE
                 The({IF sub.err # ""
                      THEN [sub EXCEPT !.stepdown = sub.stepdown /\ down]
                      ELSE
                      The({[rest EXCEPT
                               !.nest = Max(rest.nest, sub.nest),
                               !.stepdown = rest.stepdown /\ sub.stepdown /\ down] :
                           rest \in {ExtentLoop(c, sub.h, sub.data, extent_block,
                                                hdr, eex + 1, path, nest)}}) :
                      sub \in {ReadExtent(c, r.h, data, r.data,
                                          path \cup {index.ei_leaf_lo}, nest + 1)},
                      down \in {ChildStepsDown(hdr, r.data)}}) :
                 index \in {make_extent_index(entry_raw)},
                 r \in {FileRead(c.img,
                                 FileSeek(h, Mul(make_extent_index(entry_raw).ei_leaf_lo,
                                                 c.bs)),
                                 c.bs)}})

INLINE_DATA_FL == 268435456

EXTENTS_FL == 524288

\* A test of the inline-data flag alone
IsInlineFlagOnly(inode) == BitAnd(inode.i_flags, INLINE_DATA_FL) # 0

\* The test of branch (b) of _read_data (line 319)
IsInline(inode) ==
    \/ BitAnd(inode.i_flags, INLINE_DATA_FL) # 0
    \/ (BitAnd(inode.i_mode, 61440) = 40960 /\ inode.i_size_lo <= 60)

\* The data of the inline branch (line 320)
InlineData(inode) == inode.i_block

read_data(c, h, inode) ==
    IF inode.i_size_lo = 0
    THEN [h |-> h, err |-> "", data |-> <<>>, branch |-> "empty",
          nest |-> 0, stepdown |-> TRUE]
    ELSE IF IsInline(inode)
    THEN [h |-> h, err |-> "", data |-> InlineData(inode),
          branch |-> "inline", nest |-> 0, stepdown |-> TRUE]
    ELSE IF BitAnd(inode.i_flags, EXTENTS_FL) # 0
    THEN The({[h |-> r.h, err |-> r.err, data |-> r.data,
               branch |-> "extents", nest |-> r.nest, stepdown |-> r.stepdown] :
              r \in {ReadExtent(c, h, Zeros(inode.i_size_lo), inode.i_block,
                                {}, 1)}})
    ELSE [h |-> h, err |-> "Mapped Inodes are not supported",
          data |-> <<>>, branch |-> "mapped", nest |-> 0, stepdown |-> TRUE]

----------------------------------------------------------------------------
(* Ext4.read_file *)

\* What a call leaves to observe besides its value: the inode it resolved,
\* the branch of _read_data taken, the buffer _read_data returned before
\* the truncation, the deepest nesting of _read_extent, and whether every
\* child node stepped one level down
NoObs == [inode |-> <<>>, branch |-> "none", raw |-> <<>>, nest |-> 0,
          stepdown |-> TRUE, xlog |-> <<>>]

DataObs(inode, d) ==
    [inode |-> <<inode>>, branch |-> d.branch, raw |-> d.data,
     nest |-> d.nest, stepdown |-> d.stepdown, xlog |-> <<>>]

\* The value read_file returns (line 378)
FileValue(inode, data) ==
    [content |-> Slice(data, 0, inode.i_size_lo),
     atime |-> inode.i_atime,
     mtime |-> inode.i_mtime]

read_file(c, h, inode_num) ==
    The({IF i.err # ""
         THEN [h |-> i.h, err |-> i.err, val |-> <<>>, obs |-> NoObs]
         ELSE
         The({IF d.err # ""
              THEN [h |-> d.h, err |-> d.err, val |-> <<>>,
                    obs |-> DataObs(i.inode, d)]
              ELSE [h |-> d.h, err |-> "",
                    val |-> FileValue(i.inode, d.data),
                    obs |-> DataObs(i.inode, d)] :
              d \in {read_data(c, i.h, i.inode)}}) :
         i \in {read_inode(c, h, inode_num)}})

----------------------------------------------------------------------------
(* Ext4.read_dir *)

DIRTYPE_FEATURE == 2

\* The classification with the two device types exchanged
TypeOfModeSwapped(i_mode) ==
    LET inode_type == BitAnd(i_mode, 61440)
    IN  CASE inode_type = 4096  -> 5
          [] inode_type = 8192  -> 4
          [] inode_type = 16384 -> 2
          [] inode_type = 24576 -> 3
          [] inode_type = 32768 -> 1
          [] inode_type = 40960 -> 7
          [] inode_type = 49152 -> 6
          [] OTHER -> 0

\* The entry type read_dir derives from the target inode's mode
\* (lines 355-369); DirEntry() starts with type 0
TypeOfMode(i_mode) ==
    LET inode_type == BitAnd(i_mode, 61440)
    IN  CASE inode_type = 4096  -> 5
          [] inode_type = 8192  -> 3
          [] inode_type = 16384 -> 2
          [] inode_type = 24576 -> 4
          [] inode_type = 32768 -> 1
          [] inode_type = 40960 -> 7
          [] inode_type = 49152 -> 6
          [] OTHER -> 0

\* The cursor after a record
NextOffset(offset, dir_entry) == offset + dir_entry.rec_len

\* One iteration of the while loop of read_dir (lines 347-373) at offset:
\* the io record afterwards, the error raised, the entry appended and the
\* offset for the next iteration
dir_step(c, h, dir_raw, offset) ==
    LET entry_raw == Slice(dir_raw, offset, offset + 8)
        v2        == BitAnd(c.sb.s_feature_incompat, DIRTYPE_FEATURE) # 0
        TypeOf(dir_entry) ==
            IF v2 THEN [h |-> h, err |-> "", type |-> dir_entry.file_type]
            ELSE The({IF i.err # ""
                      THEN [h |-> i.h, err |-> i.err, type |-> 0]
                      ELSE [h |-> i.h, err |-> "",
                            type |-> TypeOfMode(i.inode.i_mode)] :
                      i \in {read_inode(c, h, dir_entry.inode)}})
        NameOf(dir_entry) ==
            decode_utf8(Slice(dir_raw, offset + 8,
                              offset + 8 + dir_entry.name_len))
    IN  IF Len(entry_raw) # DIR_ENTRY_SIZE
        THEN [h |-> h, err |-> "struct.error", entry |-> <<>>,
              offset |-> offset]
        ELSE
        The({IF t.err # ""
             THEN [h |-> t.h, err |-> t.err, entry |-> <<>>, offset |-> offset]
             ELSE IF ~nm.ok
             THEN [h |-> t.h, err |-> "UnicodeDecodeError", entry |-> <<>>,
                   offset |-> offset]
             ELSE [h |-> t.h, err |-> "",
                   entry |-> [inode |-> dir_entry.inode, name |-> nm.s,
                              type |-> t.type],
                   offset |-> NextOffset(offset, dir_entry)] :
             dir_entry \in {IF v2 THEN make_dir_entry_v2(entry_raw)
                            ELSE make_dir_entry(entry_raw)},
             t \in {TypeOf(IF v2 THEN make_dir_entry_v2(entry_raw)
                           ELSE make_dir_entry(entry_raw))},
             nm \in {NameOf(IF v2 THEN make_dir_entry_v2(entry_raw)
                            ELSE make_dir_entry(entry_raw))}})

\* The while loop of read_dir from offset on.  An iteration that leaves the
\* offset where it was is repeated without end, dir_data growing by one
\* entry each time: the call never returns ("hang").
RECURSIVE DirLoop(_, _, _, _, _)
DirLoop(c, h, dir_raw, offset, dir_data) ==
    IF ~(offset < Len(dir_raw))
    THEN [h |-> h, err |-> "", val |-> dir_data]
    ELSE
    The({IF st.err # "" THEN [h |-> st.h, err |-> st.err, val |-> dir_data]
         ELSE IF st.offset = offset
         THEN [h |-> st.h, err |-> "hang", val |-> Append(dir_data, st.entry)]
         ELSE DirLoop(c, st.h, dir_raw, st.offset, Append(dir_data, st.entry)) :
         st \in {dir_step(c, h, dir_raw, offset)}})

\* The first two statements of read_dir: the inode and its data
dir_open(c, h, inode_num) ==
    The({IF i.err # "" THEN [h |-> i.h, err |-> i.err, dir_raw |-> <<>>]
         ELSE The({[h |-> d.h, err |-> d.err, dir_raw |-> d.data] :
                   d \in {read_data(c, i.h, i.inode)}}) :
         i \in {read_inode(c, h, inode_num)}})

read_dir(c, h, inode_num) ==
    The({IF o.err # "" THEN [h |-> o.h, err |-> o.err, val |-> <<>>]
         ELSE DirLoop(c, o.h, o.dir_raw, 0, <<>>) :
         o \in {dir_open(c, h, inode_num)}})

----------------------------------------------------------------------------
(* Ext4.read_xattr, read_meta, read_link *)

\* 0xea020000 as its two 16-bit halves, low half first
XATTR_MAGIC == <<0, 59906>>

\* The prefix table of read_xattr (lines 394-403), as code points: "",
\* "user.", "system.posix_acl_access", "system.posix_acl_default",
\* "trusted.", "security.", "system.", "system.richacl"
xattr_prefix ==
    <<<<>>,
      <<117, 115, 101, 114, 46>>,
      <<115, 121, 115, 116, 101, 109, 46, 112, 111, 115, 105, 120, 95, 97, 99, 108, 95, 97, 99, 99, 101, 115, 115>>,
      <<115, 121, 115, 116, 101, 109, 46, 112, 111, 115, 105, 120, 95, 97, 99, 108, 95, 100, 101, 102, 97, 117, 108, 116>>,
      <<116, 114, 117, 115, 116, 101, 100, 46>>,
      <<115, 101, 99, 117, 114, 105, 116, 121, 46>>,
      <<115, 121, 115, 116, 101, 109, 46>>,
      <<115, 121, 115, 116, 101, 109, 46, 114, 105, 99, 104, 97, 99, 108>>>>

\* A value of the mapping: None, or a byte buffer
None == [none |-> TRUE, bytes |-> <<>>]

Bytes(b) == [none |-> FALSE, bytes |-> b]

\* The value read_xattr stores for an entry (lines 417-419)
XattrValue(xattr_data, entry) ==
    LET value == Slice(xattr_data, entry.e_value_offs,
                       entry.e_value_offs + Min(entry.e_value_size, FAR))
    IN  IF value = <<>> THEN None ELSE Bytes(value)

\* The sentinel test of line 408
IsSentinel(entry) ==
    <<entry.e_name_len, entry.e_name_index, entry.e_value_offs,
      entry.e_value_inum>> = <<0, 0, 0, 0>>

\* The while loop of read_xattr (lines 406-420) from offset on; xattr is the
\* mapping built so far, a function from keys to values
RECURSIVE XattrLoop(_, _, _)
XattrLoop(xattr_data, offset, xattr) ==
    IF ~(offset < Len(xattr_data)) THEN [err |-> "", val |-> xattr]
    ELSE IF Len(Slice(xattr_data, offset, offset + 16)) # XATTR_ENTRY_SIZE
    THEN [err |-> "struct.error", val |-> xattr]
    ELSE
    The({IF IsSentinel(entry) THEN [err |-> "", val |-> xattr]
         ELSE
         The({IF ~name.ok THEN [err |-> "UnicodeDecodeError", val |-> xattr]
              ELSE IF entry.e_name_index >= Len(xattr_prefix)
              THEN [err |-> "IndexError", val |-> xattr]
              ELSE XattrLoop(xattr_data, offset + 16 + entry.e_name_len,
                             ((xattr_prefix[entry.e_name_index + 1] \o name.s)
                                 :> XattrValue(xattr_data, entry)) @@ xattr) :
              name \in {decode_utf8(Slice(xattr_data, offset + 16,
                                          offset + 16 + entry.e_name_len))}}) :
         entry \in {make_xattr_entry(Slice(xattr_data, offset, offset + 16))}})

\* read_xattr(inode): the io record afterwards, the error raised and the
\* mapping
read_xattr(c, h, inode) ==
    IF inode.i_file_acl_lo = 0 THEN [h |-> h, err |-> "", val |-> <<>>]
    ELSE
    The({IF Len(r.data) # XATTR_HEADER_SIZE
         THEN [h |-> r.h, err |-> "struct.error", val |-> <<>>]
         ELSE IF make_xattr_header(r.data).h_magic # XATTR_MAGIC
         THEN [h |-> r.h, err |-> "Bad xattr magic", val |-> <<>>]
         ELSE
         The({[h |-> d.h] @@ XattrLoop(d.data, 0, <<>>) :
              d \in {FileRead(c.img, r.h,
                              Mul(c.bs, make_xattr_header(r.data).h_blocks) - 32)}}) :
         r \in {FileRead(c.img, FileSeek(h, Mul(inode.i_file_acl_lo, c.bs)),
                         XATTR_HEADER_SIZE)}})

\* The Metadata read_meta builds (lines 426-435)
Metadata(inode_num, inode, xattr) ==
    [inode |-> inode_num,
     itype |-> (inode.i_mode \div 4096) % 16,
     size  |-> inode.i_size_lo,
     ctime |-> inode.i_ctime,
     mtime |-> inode.i_mtime,
     uid   |-> inode.i_uid,
     gid   |-> inode.i_gid,
     mode  |-> inode.i_mode % 4096,
     xattr |-> xattr]

\* read_meta(inode_num).  xlog is the part of the trace made by read_xattr.
read_meta(c, h, inode_num) ==
    The({IF i.err # "" THEN [h |-> i.h, err |-> i.err, val |-> <<>>, xlog |-> <<>>]
         ELSE
         The({[h |-> x.h, err |-> x.err,
               val |-> IF x.err # "" THEN <<>>
                       ELSE Metadata(inode_num, i.inode, x.val),
               xlog |-> Slice(x.h.log, Len(i.h.log), Len(x.h.log))] :
              x \in {read_xattr(c, i.h, i.inode)}}) :
         i \in {read_inode(c, h, inode_num)}})

\* read_link(inode_num): the target as code points
read_link(c, h, inode_num) ==
    The({IF i.err # "" THEN [h |-> i.h, err |-> i.err, val |-> <<>>]
         ELSE
         The({IF d.err # "" THEN [h |-> d.h, err |-> d.err, val |-> <<>>]
              ELSE The({IF ~t.ok
                        THEN [h |-> d.h, err |-> "UnicodeDecodeError", val |-> <<>>]
                        ELSE [h |-> d.h, err |-> "", val |-> t.s] :
                        t \in {decode_utf8(Slice(d.data, 0, i.inode.i_size_lo))}}) :
              d \in {read_data(c, i.h, i.inode)}}) :
         i \in {read_inode(c, h, inode_num)}})

----------------------------------------------------------------------------
(* Volumes: the backing files the handle is opened on.  A volume is laid   *)
(* out from a description v, with the record layouts of lines 29-38.       *)

\* struct.pack of an unsigned integer v in n little-endian bytes
LE(v, n) == [i \in 1..n |-> (v \div Pow2(8 * (i - 1))) % 256]

\* A buffer padded with zero bytes (or cut) to n bytes
Pad(b, n) == [i \in 1..n |-> IF i <= Len(b) THEN b[i] ELSE 0]

RECURSIVE Concat(_)
Concat(ss) == IF ss = <<>> THEN <<>> ELSE Head(ss) \o Concat(Tail(ss))

\* The 256 bytes of a superblock (inverse of __SUPERBLOCK_PACK__)
SuperblockBytes(v) ==
    Concat(<<Zeros(20), LE(v.first_data_block, 4), LE(v.log_block_size, 4),
             Zeros(12), LE(v.inodes_per_group, 4), Zeros(12), LE(v.magic, 2),
             Zeros(30), LE(v.inode_size, 2), Zeros(6), LE(v.incompat, 4),
             Zeros(154), LE(v.desc_size, 2)>>)

\* The 32 bytes of a group descriptor (inverse of __GROUP_DESCRIPTOR_PACK__)
GroupDescBytes(inode_table) ==
    Concat(<<Zeros(8), LE(inode_table, 4), Zeros(20)>>)

\* The 128 bytes of an inode (inverse of __INODE_PACK__)
InodeBytes(ino) ==
    Concat(<<LE(ino.i_mode, 2), LE(ino.i_uid, 2), LE(ino.i_size_lo, 4),
             LE(ino.i_atime, 4), LE(ino.i_ctime, 4), LE(ino.i_mtime, 4),
             Zeros(4), LE(ino.i_gid, 2), Zeros(6), LE(ino.i_flags, 4),
             Zeros(4), Pad(ino.i_block, 60), Zeros(4),
             LE(ino.i_file_acl_lo, 4), Zeros(20)>>)

\* An extent tree node: the 12-byte header and its 12-byte records
\* (inverse of __EXTENT_HEADER_PACK__, __EXTENT_ENTRY_PACK__ and
\* __EXTENT_INDEX_PACK__).  A leaf record is <<ee_block, ee_len,
\* ee_start_lo>>, an index record <<ei_block, ei_leaf_lo>>.
ExtentRecBytes(depth, r) ==
    IF depth = 0
    THEN Concat(<<LE(r[1], 4), LE(r[2], 2), Zeros(2), LE(r[3], 4)>>)
    ELSE Concat(<<LE(r[1], 4), LE(r[2], 4), Zeros(4)>>)

ExtentNodeBytes(magic, entries, depth, recs) ==
    Concat(<<LE(magic, 2), LE(entries, 2), LE(4, 2), LE(depth, 2), Zeros(4)>>)
    \o Concat([i \in 1..Len(recs) |-> ExtentRecBytes(depth, recs[i])])

\* The block size the volume is laid out with
LayoutBs(v) == Pow2(10 + v.layout_log)

\* The pieces <<offset, bytes>> written to the volume
Pieces(v) ==
    LET bs == LayoutBs(v)
    IN  {<<1024, SuperblockBytes(v)>>}
        \cup {<<(v.first_data_block + 1) * bs + (g - 1) * v.gd_stride,
                GroupDescBytes(v.itable[g])>> : g \in 1..Len(v.itable)}
        \cup {<<v.itable[((n - 1) \div v.inodes_per_group) + 1] * bs
                    + ((n - 1) % v.inodes_per_group) * v.inode_size,
                InodeBytes(v.inodes[n])>> : n \in DOMAIN v.inodes}
        \cup {<<k * bs, v.blocks[k]>> : k \in DOMAIN v.blocks}

\* Block k of the volume: a pattern block from v.data_from on, the pieces
\* written into it before
BlockBytes(v, k) ==
    LET bs     == LayoutBs(v)
        ps     == {p \in Pieces(v) : p[1] \div bs = k /\ Len(p[2]) > 0}
        off(p) == p[1] % bs
        end(p) == off(p) + Len(p[2])
        len    == IF ps = {} THEN 0
                  ELSE CHOOSE m \in {end(p) : p \in ps} :
                           \A p \in ps : end(p) <= m
    IN  [i \in 1..len |->
            IF \E p \in ps : (i - 1) \in off(p)..(end(p) - 1)
            THEN LET p == CHOOSE q \in ps : (i - 1) \in off(q)..(end(q) - 1)
                 IN  p[2][i - off(p)]
            ELSE 0]

MkImage(v) ==
    [bs  |-> LayoutBs(v),
     blk |-> [k1 \in 1..v.nblocks |->
                IF k1 - 1 >= v.data_from THEN [pat |-> TRUE, b |-> <<>>]
                ELSE [pat |-> FALSE, b |-> BlockBytes(v, k1 - 1)]]]

----------------------------------------------------------------------------
(* The volumes of the model *)

\* A volume with no inodes yet: 1 KiB blocks, two block groups of eight
\* 128-byte inodes, the inode tables in blocks 4 and 5, data blocks from
\* block 16 to block 27
EmptyVol ==
    [layout_log |-> 0, first_data_block |-> 1, log_block_size |-> 0,
     inodes_per_group |-> 8, magic |-> EXT4_MAGIC, inode_size |-> 128,
     incompat |-> 66, desc_size |-> 32, gd_stride |-> 32,
     itable |-> <<4, 5>>, inodes |-> <<>>, blocks |-> <<>>,
     nblocks |-> 28, data_from |-> 16]

\* The extent tree nodes kept in blocks 8 to 12:
\*   8: a leaf, logical blocks 0 and 1 in data blocks 16 and 18
\*   9: a leaf, logical block 2 in data block 20
\*  10: a node declaring depth 1, with an index record to block 8
\*  11: a node declaring depth 1, with an index record to itself
\*  12: a node declaring depth 1, with index records to blocks 8 and 9
\* Blocks 13 to 15 are not written: all zero.
TreeBlocks ==
    (8 :> ExtentNodeBytes(EXTENT_MAGIC, 2, 0, <<<<0, 1, 16>>, <<1, 1, 18>>>>))
    @@ (9 :> ExtentNodeBytes(EXTENT_MAGIC, 1, 0, <<<<2, 1, 20>>>>))
    @@ (10 :> ExtentNodeBytes(EXTENT_MAGIC, 1, 1, <<<<0, 8>>>>))
    @@ (11 :> ExtentNodeBytes(EXTENT_MAGIC, 1, 1, <<<<0, 11>>>>))
    @@ (12 :> ExtentNodeBytes(EXTENT_MAGIC, 2, 1, <<<<0, 8>>, <<2, 9>>>>))

TreeVol == [EmptyVol EXCEPT !.blocks = TreeBlocks]

\* An inode of a volume description.  extents is the list of leaf extents
\* its i_block was built from (<<>> when it was not): it is not written to
\* the volume.
InodeRec(mode, size, flags, iblock, acl) ==
    [i_mode |-> mode, i_uid |-> 1000, i_size_lo |-> size, i_atime |-> 100,
     i_ctime |-> 200, i_mtime |-> 300, i_gid |-> 50, i_flags |-> flags,
     i_block |-> iblock, i_file_acl_lo |-> acl, extents |-> <<>>]

ExtentFile(size, list) ==
    [InodeRec(33188, size, EXTENTS_FL, ExtentNodeBytes(EXTENT_MAGIC, Len(list), 0, list), 0)
        EXCEPT !.extents = list]

MaxLBlock == 2

MaxExtLen == 2

\* Leaf extents <<ee_block, ee_len, ee_start_lo>> over the logical blocks
\* 0..MaxLBlock, stored in data blocks
\* The data block an extent of l blocks at logical block b is stored from:
\* physical order differs from logical order
PhysOf(b, l) == 16 + ((5 * b + 3 * l) % 7)

\* Leaf extents <<ee_block, ee_len, ee_start_lo>> over the logical blocks
\* 0..MaxLBlock
LeafExtents ==
    {<<b, l, PhysOf(b, l)>> : b \in 0..MaxLBlock, l \in 1..MaxExtLen}

Disjoint(e1, e2) == e1[1] + e1[2] <= e2[1] \/ e2[1] + e2[2] <= e1[1]

\* Extent lists of one to three extents over pairwise disjoint logical
\* ranges, in every on-disk order
ExtentLists ==
    {<<e>> : e \in LeafExtents}
    \cup {t \in LeafExtents \X LeafExtents : Disjoint(t[1], t[2])}
    \cup {t \in LeafExtents \X LeafExtents \X LeafExtents :
            /\ Disjoint(t[1], t[2])
            /\ Disjoint(t[1], t[3])
            /\ Disjoint(t[2], t[3])}

LeafRoot(list) == ExtentNodeBytes(EXTENT_MAGIC, Len(list), 0, list)

IndexRoot(depth, leaves) ==
    ExtentNodeBytes(EXTENT_MAGIC, Len(leaves), depth,
                    [i \in 1..Len(leaves) |-> <<0, leaves[i]>>])

\* Other contents of an inode's 60-byte i_block: index roots over the tree
\* blocks (well-formed; to an all-zero block; to a child declaring the
\* parent's depth; to a block that points to itself; two levels; to a child
\* shallower than declared), a root with a wrong magic, a root declaring
\* more records than i_block holds, extents stored past the end of the
\* backing file, and 60 bytes of inline text
OtherRoots ==
    {IndexRoot(1, <<8, 9>>), IndexRoot(1, <<14>>), IndexRoot(1, <<10>>),
     IndexRoot(1, <<11>>), IndexRoot(2, <<12>>), IndexRoot(2, <<8>>),
     ExtentNodeBytes(62219, 1, 0, <<<<0, 1, 16>>>>),
     ExtentNodeBytes(EXTENT_MAGIC, 5, 0,
                     <<<<0, 1, 16>>, <<1, 1, 17>>, <<2, 1, 18>>, <<3, 1, 19>>>>),
     LeafRoot(<<<<0, 1, 28>>>>), LeafRoot(<<<<0, 2, 27>>>>),
     [i \in 1..60 |-> 64 + (i % 26)]}

FileSizes == {0, 1, 60, 61, 1500}

ExtentFileSizes == {1500, 3072}

\* The inodes read_file is tried on: regular files with every extent list,
\* and regular files, symlinks and directories with every flag combination
\* over the other roots
ProbeInodes ==
    {ExtentFile(sz, l) : sz \in ExtentFileSizes, l \in ExtentLists}
    \cup {InodeRec(m, sz, fl, r, 0) :
            m \in {33188, 41471}, sz \in FileSizes,
            fl \in {0, EXTENTS_FL, INLINE_DATA_FL, INLINE_DATA_FL + EXTENTS_FL},
            r \in OtherRoots}

\* The inode number of the probe: the fourth inode of the second group
ProbeIno == EmptyVol.inodes_per_group + 4

FileVols == {[TreeVol EXCEPT !.inodes = (ProbeIno :> i)] : i \in ProbeInodes}

----------------------------------------------------------------------------
(* Directories of the volumes *)

\* The UTF-8 bytes of a name given as code points below 65536
RECURSIVE Utf8Encode(_)
Utf8Encode(cps) ==
    IF cps = <<>> THEN <<>>
    ELSE LET cp == Head(cps)
         IN  (IF cp < 128 THEN <<cp>>
              ELSE IF cp < 2048 THEN <<192 + (cp \div 64), 128 + (cp % 64)>>
              ELSE <<224 + (cp \div 4096), 128 + ((cp \div 64) % 64),
                     128 + (cp % 64)>>)
             \o Utf8Encode(Tail(cps))

\* Names as code points: ".", "..", "hello.txt", "sub", "ln", and two
\* names with a two-byte and a three-byte character
NameDot == <<46>>

NameDotDot == <<46, 46>>

NameHello == <<104, 101, 108, 108, 111, 46, 116, 120, 116>>

NameSub == <<115, 117, 98>>

NameLink == <<108, 110>>

NameAccent == <<99, 97, 102, 233>>

NameEuro == <<8364, 53>>

\* A directory record as laid out (inverse of __DIR_ENTRY_PACK__ and
\* __DIR_ENTRY_V2_PACK__): r.rec_len is the length it declares, r.span the
\* bytes it takes in the block
DirRecBytes(v2, r) ==
    LET name == Utf8Encode(r.name)
    IN  Pad(Concat(<<LE(r.inode, 4), LE(r.rec_len, 2),
                     IF v2 THEN LE(Len(name), 1) \o LE(r.tag, 1)
                     ELSE LE(Len(name), 2),
                     name>>),
            r.span)

DirBlockBytes(v2, recs) ==
    Concat([i \in 1..Len(recs) |-> DirRecBytes(v2, recs[i])])

\* The file type tag of a mode, as the file system writes it in a v2 record
FileTypeTag(mode) ==
    LET n == (mode \div 4096) % 16
    IN  CASE n = 8 -> 1 [] n = 4 -> 2 [] n = 2 -> 3 [] n = 6 -> 4
          [] n = 1 -> 5 [] n = 12 -> 6 [] n = 10 -> 7 [] OTHER -> 0

RecLenFor(name) == 8 + 4 * ((Len(Utf8Encode(name)) + 3) \div 4)

RECURSIVE SumSpan(_)
SumSpan(recs) == IF recs = <<>> THEN 0 ELSE Head(recs).span + SumSpan(Tail(recs))

\* The records of a well-formed one-block directory holding items
\* <<inode, name>>: each record as long as its name needs, the last one
\* reaching the end of the block.  modes gives the mode of each inode.
RECURSIVE WfRecs(_, _, _)
WfRecs(items, modes, used) ==
    IF items = <<>> THEN <<>>
    ELSE LET it  == Head(items)
             len == IF Len(items) = 1 THEN 1024 - used ELSE RecLenFor(it[2])
         IN  <<[inode |-> it[1], name |-> it[2], tag |-> FileTypeTag(modes[it[1]]),
                rec_len |-> len, span |-> len]>>
             \o WfRecs(Tail(items), modes, used + len)

\* The inodes of the file system volume, by number:
\*   1 unused (all zero)       2 root directory (block 6)
\*   3 FIFO                    4 character device
\*   5 block device            6 socket
\*   7 directory (block 7)     8 an inode of mode 0
\*   9 regular file, 2500 bytes, index root over blocks 8 and 9
\*  10 short symlink, inline   11 regular file without extents flag
\*  12 regular file, 1500 bytes, one extent, with an attribute block
\*  13 regular file, inline-data flag, 40 bytes
\*  14 regular file whose extent root has a wrong magic
FsInodes ==
    <<InodeRec(0, 0, 0, <<>>, 0),
      InodeRec(16877, 1024, EXTENTS_FL, LeafRoot(<<<<0, 1, 6>>>>), 0),
      InodeRec(4516, 0, 0, <<>>, 0),
      InodeRec(8612, 0, 0, <<>>, 0),
      InodeRec(24996, 0, 0, <<>>, 0),
      InodeRec(49572, 0, 0, <<>>, 0),
      InodeRec(16877, 1024, EXTENTS_FL, LeafRoot(<<<<0, 1, 7>>>>), 0),
      InodeRec(0, 0, 0, <<>>, 0),
      InodeRec(33188, 2500, EXTENTS_FL, IndexRoot(1, <<8, 9>>), 0),
      InodeRec(41471, 9, 0, Utf8Encode(NameHello), 0),
      InodeRec(33188, 100, 0, <<>>, 0),
      InodeRec(33188, 1500, EXTENTS_FL, LeafRoot(<<<<0, 2, 17>>>>), 13),
      InodeRec(33188, 40, INLINE_DATA_FL, [i \in 1..60 |-> 64 + (i % 26)], 0),
      InodeRec(33188, 1024, EXTENTS_FL,
               ExtentNodeBytes(62219, 1, 0, <<<<0, 1, 16>>>>), 0)>>

FsModes == [n \in 0..16 |-> IF n \in 1..Len(FsInodes) THEN FsInodes[n].i_mode ELSE 0]

RootItems ==
    <<<<2, NameDot>>, <<2, NameDotDot>>, <<12, NameHello>>, <<7, NameSub>>,
      <<10, NameLink>>, <<3, <<102>>>>, <<4, <<99>>>>, <<5, <<98>>>>,
      <<6, <<115>>>>, <<8, <<111>>>>, <<9, NameAccent>>>>

SubItems == <<<<7, NameDot>>, <<2, NameDotDot>>, <<13, <<105>>>>, <<14, <<120>>>>>>

\* An attribute entry as laid out (inverse of __XATTR_ENTRY_PACK__),
\* followed by its name; pad: the name is filled up to a multiple of four
\* bytes, as the file system does
XattrEntryBytes(a, pad) ==
    LET name == Utf8Encode(a.name)
    IN  Concat(<<LE(Len(name), 1), LE(a.idx, 1), LE(a.offs, 2), LE(0, 4),
                 LE(Len(a.value), 4), LE(0, 4), name,
                 Zeros(IF pad THEN (4 - (Len(name) % 4)) % 4 ELSE 0)>>)

\* The 32 bytes of an attribute block header (inverse of
\* __XATTR_HEADER_PACK__): magic 0xea020000, one reference, h_blocks
XattrHeaderBytes(h_blocks) ==
    Pad(Concat(<<LE(0, 2), LE(59906, 2), LE(1, 4), LE(h_blocks, 4)>>), 32)

\* The value bytes at byte o of the block, 0 where there are none; an
\* attribute's value lies at x.base + its offs
XattrValueByte(x, o) ==
    IF \E i \in 1..Len(x.attrs) :
           o \in (x.base + x.attrs[i].offs)..(x.base + x.attrs[i].offs
                                               + Len(x.attrs[i].value) - 1)
    THEN LET i == CHOOSE j \in 1..Len(x.attrs) :
                      o \in (x.base + x.attrs[j].offs)..(x.base + x.attrs[j].offs
                                                          + Len(x.attrs[j].value) - 1)
         IN  x.attrs[i].value[o - (x.base + x.attrs[i].offs) + 1]
    ELSE 0

\* An attribute block of 1024 bytes: header, entries, zero bytes (the
\* sentinel), and the values where the entries say
XattrBlockBytes(x) ==
    LET head == XattrHeaderBytes(1)
                \o Concat([i \in 1..Len(x.attrs) |-> XattrEntryBytes(x.attrs[i], x.pad)])
    IN  [o \in 1..1024 |-> IF o <= Len(head) THEN head[o]
                           ELSE XattrValueByte(x, o - 1)]

\* Attributes <<idx, name, value>> with their values stored from the end of
\* the block downwards, each at a multiple of four; an empty value has
\* offset 0.  base is what e_value_offs counts from: 0 for the start of the
\* block, 32 for the end of the header.
RECURSIVE XattrLayout(_, _, _)
XattrLayout(items, base, end) ==
    IF items = <<>> THEN <<>>
    ELSE LET it   == Head(items)
             size == 4 * ((Len(it[3]) + 3) \div 4)
         IN  <<[idx |-> it[1], name |-> it[2], value |-> it[3],
                offs |-> IF it[3] = <<>> THEN 0 ELSE end - size - base]>>
             \o XattrLayout(Tail(items), base, end - size)

Xattrs(items, base, pad) ==
    [attrs |-> XattrLayout(items, base, 1024), base |-> base, pad |-> pad]

\* The attributes of inode 12 of the file system volume: user.mime with a
\* value and system.posix_acl_access without
FsXattrs ==
    Xattrs(<<<<1, <<109, 105, 109, 101>>, <<116, 101, 120, 116>>>>,
             <<2, <<>>, <<>>>>>>, 32, TRUE)

\* The file system volume with the given directory format (v2: the
\* directory-type feature bit set), root directory records and attribute
\* block of inode 12
FsVolFull(v2, rootrecs, x) ==
    [v2 |-> v2, dir |-> rootrecs, xattr |-> x] @@
    [TreeVol EXCEPT
        !.incompat = IF v2 THEN 66 ELSE 64,
        !.inodes = FsInodes,
        !.blocks = (13 :> XattrBlockBytes(x))
                   @@ TreeBlocks
                   @@ (6 :> DirBlockBytes(v2, rootrecs))
                   @@ (7 :> DirBlockBytes(v2, WfRecs(SubItems, FsModes, 0)))]

FsVolWith(v2, rootrecs) == FsVolFull(v2, rootrecs, FsXattrs)

FsVol(v2) == FsVolWith(v2, WfRecs(RootItems, FsModes, 0))

MaxLogBlockSize == 2

\* Superblocks for load: right and wrong magics, supported and unsupported
\* feature sets, several block sizes
LoadMagics == {EXT4_MAGIC, 0, 61266, 21487}

LoadIncompats ==
    {0, 2, 64, 66, 578} \cup {UNSUPPORTED[i] : i \in 1..Len(UNSUPPORTED)}
    \cup {5, 130, 86165, 81920}

LoadVols ==
    {[EmptyVol EXCEPT !.magic = m, !.incompat = f, !.log_block_size = l,
                      !.nblocks = 2, !.data_from = 2] :
        m \in LoadMagics, f \in LoadIncompats, l \in 0..MaxLogBlockSize}

----------------------------------------------------------------------------
(* The handle: state after Ext4() and the calls *)

NoCall == [op |-> "none", arg |-> 0]

\* No workers
NoConc == [mode |-> "none", lock |-> 0, by |-> 0, thr |-> <<>>]

\* No read_dir loop is running
NoScan == [on |-> FALSE, dir_raw |-> <<>>, offset |-> 0, dir_data |-> <<>>]

InitFields ==
    /\ ext4 = NoFile
    /\ superblock = <<>>
    /\ block_size = 1024
    /\ call = NoCall
    /\ result = [err |-> "", val |-> <<>>, obs |-> NoObs]
    /\ iolog = <<>>
    /\ scan = NoScan
    /\ last = [op |-> "none", arg |-> 0, err |-> ""]

\* The handle after construction, and no workers
InitHandle == InitFields /\ conc = NoConc

\* The call that has just ended, as the next call's predecessor
Done == [op |-> call.op, arg |-> call.arg, err |-> result.err]

\* The handle went through a load that did not raise
Loaded == superblock # <<>> /\ ~(call.op = "load" /\ result.err # "")

\* Ext4.load on the fresh handle
Load ==
    /\ call = NoCall
    /\ \E r \in {load(image, superblock, block_size)} :
           /\ ext4' = r.h.f
           /\ superblock' = r.superblock
           /\ block_size' = r.block_size
           /\ result' = [err |-> r.err, val |-> r.bit, obs |-> NoObs]
           /\ iolog' = r.h.log
    /\ call' = [op |-> "load", arg |-> 0]
    /\ last' = Done
    /\ UNCHANGED <<vol, image, scan, conc>>

InitLoad ==
    /\ vol \in LoadVols
    /\ image = MkImage(vol)
    /\ InitHandle

NextLoad == Load

SpecLoad == InitLoad /\ [][NextLoad]_vars

\* The handle's fields, as the methods read them
Ctx == [img |-> image, sb |-> superblock[1], bs |-> block_size]

\* Ext4.read_file(n)
ReadFile(n) ==
    /\ Loaded
    /\ \E r \in {read_file(Ctx, [f |-> ext4, log |-> <<>>], n)} :
           /\ ext4' = r.h.f
           /\ result' = [err |-> r.err, val |-> r.val, obs |-> r.obs]
           /\ iolog' = r.h.log
    /\ call' = [op |-> "read_file", arg |-> n]
    /\ last' = Done
    /\ UNCHANGED <<vol, image, superblock, block_size, scan, conc>>

InitFile ==
    /\ vol \in FileVols
    /\ image = MkImage(vol)
    /\ InitHandle

NextFile == Load \/ ReadFile(ProbeIno)

SpecFile == InitFile /\ [][NextFile]_vars

\* The unsupported feature bits set in the volume's s_feature_incompat
UnsupportedSet(v) ==
    {b \in {1, 4, 16, 128, 4096, 16384, 65536} : (v.incompat \div b) % 2 = 1}

\* The one seek and one read of the superblock
SuperblockReadOnly == iolog = <<<<"seek", 1024>>, <<"read", 1024, 256>>>>

\* C4: load fails fast.  A wrong magic raises the bad-superblock-magic
\* error, whatever the feature bits; a right magic with an unsupported bit
\* raises the unsupported-feature error for a bit that is set; in both cases
\* the only access to the file is the superblock read and the block size
\* stays the constructor's 1024; otherwise load succeeds with block size
\* 2^(10 + s_log_block_size).
C4_LoadFailsFast ==
    call.op = "load" =>
        /\ SuperblockReadOnly
        /\ vol.magic # 61267 =>
              /\ result.err = "Bad superblock magic"
              /\ block_size = 1024
        /\ (vol.magic = 61267 /\ UnsupportedSet(vol) # {}) =>
              /\ result.err = "Unsupported feature"
              /\ result.val \in UnsupportedSet(vol)
              /\ block_size = 1024
        /\ (vol.magic = 61267 /\ UnsupportedSet(vol) = {}) =>
              /\ result.err = ""
              /\ block_size = Pow2(10 + vol.log_block_size)

\* A load rejected for a feature bit, on a superblock declaring 4 KiB blocks
C4_Witness ==
    /\ call.op = "load"
    /\ vol.magic = 61267
    /\ vol.incompat = 130
    /\ vol.log_block_size = 2
    /\ result.err = "Unsupported feature"
    /\ block_size = 1024

----------------------------------------------------------------------------
(* Claims about read_file, _read_data and _read_extent (SpecFile) *)

\* The probe inode as the volume description has it
Probe == vol.inodes[ProbeIno]

FlagSet(flags, bit) == (flags \div bit) % 2 = 1

ProbeInlineFlag == FlagSet(Probe.i_flags, 268435456)

ProbeExtentsFlag == FlagSet(Probe.i_flags, 524288)

ProbeShortSymlink ==
    (Probe.i_mode \div 4096) % 16 = 10 /\ Probe.i_size_lo <= 60

FileRead1 == call.op = "read_file" /\ call.arg = ProbeIno

\* The seek and read of the group descriptor and of the inode, nothing else
InodeReadsOnly ==
    /\ Len(iolog) = 4
    /\ iolog[1][1] = "seek" /\ iolog[2] = <<"read", iolog[1][2], 32>>
    /\ iolog[3][1] = "seek" /\ iolog[4] = <<"read", iolog[3][2], 128>>

\* C1 (as claimed): whenever read_file returns, its content has exactly
\* i_size_lo bytes, whichever branch of _read_data produced it.
C1_ExactSize ==
    (FileRead1 /\ result.err = "") =>
        Len(result.val.content) = Probe.i_size_lo

\* C7: the branch of _read_data follows the priority (a) size zero,
\* (b) inline flag or short symlink, (c) extents flag, (d) otherwise.
\* Size zero gives an empty buffer and no error whatever the flags; branch
\* (b) returns the inline area with no access to the file beyond the inode
\* lookup, even with the extents flag set; branch (d) raises the
\* mapped-inode error, again with no access beyond the inode lookup.
C7_BranchPriority ==
    FileRead1 =>
        /\ Probe.i_size_lo = 0 =>
              /\ result.err = ""
              /\ result.obs.branch = "empty"
              /\ result.val.content = <<>>
              /\ InodeReadsOnly
        /\ (Probe.i_size_lo # 0 /\ (ProbeInlineFlag \/ ProbeShortSymlink)) =>
              /\ result.err = ""
              /\ result.obs.branch = "inline"
              /\ result.obs.raw = Pad(Probe.i_block, 60)
              /\ InodeReadsOnly
        /\ (/\ Probe.i_size_lo # 0
            /\ ~(ProbeInlineFlag \/ ProbeShortSymlink)
            /\ ProbeExtentsFlag) =>
              result.obs.branch = "extents"
        /\ (/\ Probe.i_size_lo # 0
            /\ ~(ProbeInlineFlag \/ ProbeShortSymlink)
            /\ ~ProbeExtentsFlag) =>
              /\ result.err = "Mapped Inodes are not supported"
              /\ InodeReadsOnly

\* An inode with both the inline-data and the extents flag, whose i_block
\* holds a valid extent root, read through the inline branch
C7_Witness ==
    /\ FileRead1
    /\ ProbeInlineFlag /\ ProbeExtentsFlag
    /\ Probe.i_size_lo = 61
    /\ Probe.i_block = IndexRoot(1, <<8, 9>>)
    /\ result.obs.branch = "inline"
    /\ InodeReadsOnly

\* The extents of the probe lie inside its size rounded up to a block
ExtentsInsideSize ==
    /\ Probe.extents # <<>>
    /\ \A i \in 1..Len(Probe.extents) :
          (Probe.extents[i][1] + Probe.extents[i][2]) * 1024
              <= ((Probe.i_size_lo + 1023) \div 1024) * 1024

\* The extent that covers byte offset o of the file, 0 when there is none
CoveringExtent(o) ==
    IF \E i \in 1..Len(Probe.extents) :
          o \div 1024 \in Probe.extents[i][1]
                            ..(Probe.extents[i][1] + Probe.extents[i][2] - 1)
    THEN CHOOSE i \in 1..Len(Probe.extents) :
          o \div 1024 \in Probe.extents[i][1]
                            ..(Probe.extents[i][1] + Probe.extents[i][2] - 1)
    ELSE 0

\* C3: extent walk round trip.  For extents over disjoint logical ranges
\* inside the size rounded up to a block, in any on-disk order, the buffer
\* _read_extent leaves holds at ee_block * block_size + j the byte stored at
\* ee_start_lo * block_size + j, for every extent and every j below
\* ee_len * block_size, and zero at every offset no extent covers.
C3_RoundTrip ==
    (FileRead1 /\ ExtentsInsideSize) =>
        /\ result.err = ""
        /\ \A i \in 1..Len(Probe.extents) :
              Len(result.obs.raw)
                  >= (Probe.extents[i][1] + Probe.extents[i][2]) * 1024
        /\ \A o \in 0..(Len(result.obs.raw) - 1) :
              LET i == CoveringExtent(o)
              IN  result.obs.raw[o + 1] =
                    IF i = 0 THEN 0
                    ELSE ByteAt(image, Probe.extents[i][3] * 1024
                                       + (o - Probe.extents[i][1] * 1024))

\* Three extents stored against the logical order, read back
C3_Witness ==
    /\ FileRead1
    /\ Probe.i_size_lo = 3072
    /\ Len(Probe.extents) = 3
    /\ Probe.extents[1][1] = 2 /\ Probe.extents[2][1] = 0
    /\ result.err = ""
    /\ Len(result.val.content) = 3072

\* C9 (as claimed): the nesting of _read_extent below the root never
\* exceeds the eh_depth of the root header, every child entered from a node
\* of depth d declares depth d - 1, and the walk ends with the data or with
\* one of the errors the walker raises itself.
C9_DepthValidated ==
    (FileRead1 /\ result.obs.branch = "extents") =>
        /\ result.obs.nest - 1 <= U16(Pad(Probe.i_block, 60), 6)
        /\ result.obs.stepdown
        /\ result.err # "RecursionError"

----------------------------------------------------------------------------
(* read_dir over directories with known records *)

MaxDirRecs == 2

DirNames == <<NameHello, NameAccent, NameEuro, NameLink>>

\* Inodes 3..10 of the file system volume: one of each type, and mode 0
DirTargets == 3..10

\* The records after "." and "..": up to MaxDirRecs targets in any order,
\* with repetitions; names vary with the target and the place
DirItemLists ==
    UNION {{[i \in 1..k |-> <<f[i], DirNames[((f[i] + i) % Len(DirNames)) + 1]>>] :
                f \in [1..k -> DirTargets]} : k \in 1..MaxDirRecs}

DotItems == <<<<2, NameDot>>, <<2, NameDotDot>>>>

\* A record list whose third record carries the tag t, whatever its target
Retag(recs, t) == [recs EXCEPT ![3].tag = t]

\* Root directories in both formats as the file system writes them, and v2
\* directories whose third record carries any tag of the type space
DirVols ==
    {FsVolWith(v2, WfRecs(DotItems \o l, FsModes, 0)) :
        v2 \in BOOLEAN, l \in DirItemLists}
    \cup {FsVolWith(TRUE, Retag(WfRecs(DotItems \o <<<<n, NameSub>>>>, FsModes, 0), t)) :
            n \in {7, 9}, t \in 0..7}

\* Ext4.read_dir(n)
ReadDir(n) ==
    /\ Loaded
    /\ \E r \in {read_dir(Ctx, [f |-> ext4, log |-> <<>>], n)} :
           /\ r.err # "hang"
           /\ ext4' = r.h.f
           /\ result' = [err |-> r.err, val |-> r.val, obs |-> NoObs]
           /\ iolog' = r.h.log
    /\ call' = [op |-> "read_dir", arg |-> n]
    /\ last' = Done
    /\ UNCHANGED <<vol, image, superblock, block_size, scan, conc>>

InitDir ==
    /\ vol \in DirVols
    /\ image = MkImage(vol)
    /\ InitHandle

NextDir == Load \/ ReadDir(2)

SpecDir == InitDir /\ [][NextDir]_vars

\* The records' tags are the ones the file system writes for their targets
TagsConsistent(v) ==
    \A i \in 1..Len(v.dir) : v.dir[i].tag = FileTypeTag(v.inodes[v.dir[i].inode].i_mode)

\* The entry a record stands for, its type taken from the record's tag
\* (v2) or from the target inode's mode (v1)
EntryOf(v, r) ==
    [inode |-> r.inode, name |-> r.name,
     type |-> IF v.v2 THEN r.tag ELSE FileTypeTag(v.inodes[r.inode].i_mode)]

\* The entry with the type of the target inode, whatever the format
EntryByMode(v, r) ==
    [inode |-> r.inode, name |-> r.name,
     type |-> FileTypeTag(v.inodes[r.inode].i_mode)]

\* C2: read_dir of a directory with known records returns one entry per
\* record, in on-disk order, with the record's inode number and name, and
\* the type from the record's tag (v2) or from the class of the target
\* inode's mode (v1); when the tags are the ones of the targets, the
\* entries are the same in both formats.
C2_DirEntries ==
    call.op = "read_dir" =>
        /\ result.err = ""
        /\ result.val = [i \in 1..Len(vol.dir) |-> EntryOf(vol, vol.dir[i])]
        /\ TagsConsistent(vol) =>
              result.val = [i \in 1..Len(vol.dir) |-> EntryByMode(vol, vol.dir[i])]

C2_Witness ==
    /\ call.op = "read_dir"
    /\ ~vol.v2
    /\ Len(result.val) = 4
    /\ result.val[3].type = 1
    /\ result.val[3].name = NameEuro
    /\ result.val[4].type = 4

----------------------------------------------------------------------------
(* The scan of read_dir, one loop iteration at a time *)

\* The loop is followed for at most MaxScan appended entries
MaxScan == 4

\* Record lengths a damaged record may declare: zero, less than a record
\* header, and more than the block
BadRecLens == {0, 4, 2000}

\* The record list with the k-th record declaring rec_len rl
Damage(recs, k, rl) == [recs EXCEPT ![k].rec_len = rl]

ScanRecs == WfRecs(DotItems \o <<<<9, NameHello>>>>, FsModes, 0)

\* Root directories in both formats: intact, and with one damaged record
ScanVols ==
    {FsVolWith(v2, ScanRecs) : v2 \in BOOLEAN}
    \cup {FsVolWith(v2, Damage(ScanRecs, k, rl)) :
            v2 \in BOOLEAN, k \in 1..Len(ScanRecs), rl \in BadRecLens}

\* read_dir(n) up to the loop (lines 342-345)
DirOpen(n) ==
    /\ Loaded
    /\ ~scan.on
    /\ \E o \in {dir_open(Ctx, [f |-> ext4, log |-> <<>>], n)} :
           /\ ext4' = o.h.f
           /\ iolog' = o.h.log
           /\ result' = [err |-> o.err, val |-> <<>>, obs |-> NoObs]
           /\ scan' = IF o.err # "" THEN NoScan
                      ELSE [on |-> TRUE, dir_raw |-> o.dir_raw, offset |-> 0,
                            dir_data |-> <<>>]
    /\ call' = [op |-> "read_dir", arg |-> n]
    /\ UNCHANGED <<vol, image, superblock, block_size, last, conc>>

\* One iteration of the loop (lines 346-373)
DirIter ==
    /\ scan.on
    /\ scan.offset < Len(scan.dir_raw)
    /\ Len(scan.dir_data) < MaxScan
    /\ \E st \in {dir_step(Ctx, [f |-> ext4, log |-> iolog], scan.dir_raw, scan.offset)} :
           /\ ext4' = st.h.f
           /\ iolog' = st.h.log
           /\ result' = [result EXCEPT !.err = st.err]
           /\ scan' = IF st.err # "" THEN NoScan
                      ELSE [scan EXCEPT !.offset = st.offset,
                                        !.dir_data = Append(@, st.entry)]
    /\ UNCHANGED <<vol, image, superblock, block_size, call, last, conc>>

\* The loop condition fails and read_dir returns dir_data (line 374)
DirReturn ==
    /\ scan.on
    /\ ~(scan.offset < Len(scan.dir_raw))
    /\ result' = [err |-> "", val |-> scan.dir_data, obs |-> NoObs]
    /\ scan' = NoScan
    /\ UNCHANGED <<vol, image, ext4, superblock, block_size, call, iolog, last,
                   conc>>

InitScan ==
    /\ vol \in ScanVols
    /\ image = MkImage(vol)
    /\ InitHandle

NextScan == Load \/ DirOpen(2) \/ DirIter \/ DirReturn

SpecScan == InitScan /\ [][NextScan]_vars

\* C8: the scan cursor strictly increases at every iteration and is never
\* carried past the end of the buffer: an iteration that continues the scan
\* leaves the offset greater than it was and within the directory buffer.
C8_CursorAdvances ==
    [][(scan.on /\ scan'.on) =>
          /\ scan'.offset > scan.offset
          /\ scan'.offset <= Len(scan.dir_raw)]_vars

----------------------------------------------------------------------------
(* read_meta and read_xattr over attribute blocks with known entries *)

MaxXattrs == 2

\* Keys: user.a, user.foo!, system.foo!, system.posix_acl_access
XattrKeys == {<<1, <<97>>>>, <<1, <<102, 111, 111, 33>>>>,
              <<6, <<102, 111, 111, 33>>>>, <<2, <<>>>>}

XattrValues == {<<>>, <<9, 8, 7, 6>>}

\* Lists of up to MaxXattrs attributes with different keys
XattrItemLists ==
    UNION {{l \in [1..k -> {<<key[1], key[2], v>> : key \in XattrKeys, v \in XattrValues}] :
               \A i, j \in 1..k : i # j => <<l[i][1], l[i][2]>> # <<l[j][1], l[j][2]>>} :
           k \in 0..MaxXattrs}

\* Attribute blocks whose value offsets count from the start of the block
\* or from the end of the header, with and without name padding
XattrVols ==
    {FsVolFull(TRUE, WfRecs(RootItems, FsModes, 0), Xattrs(l, base, pad)) :
        l \in XattrItemLists, base \in {0, 32}, pad \in BOOLEAN}

\* Ext4.read_meta(n)
ReadMeta(n) ==
    /\ Loaded
    /\ \E r \in {read_meta(Ctx, [f |-> ext4, log |-> <<>>], n)} :
           /\ ext4' = r.h.f
           /\ result' = [err |-> r.err, val |-> r.val,
                         obs |-> [NoObs EXCEPT !.xlog = r.xlog]]
           /\ iolog' = r.h.log
    /\ call' = [op |-> "read_meta", arg |-> n]
    /\ last' = Done
    /\ UNCHANGED <<vol, image, superblock, block_size, scan, conc>>

InitXattr ==
    /\ vol \in XattrVols
    /\ image = MkImage(vol)
    /\ InitHandle

\* Inode 12 has the attribute block, inode 11 has none
NextXattr == Load \/ ReadMeta(12) \/ ReadMeta(11)

SpecXattr == InitXattr /\ [][NextXattr]_vars

\* The key of an attribute: its prefix followed by its name
KeyOf(a) == xattr_prefix[a.idx + 1] \o a.name

\* C5: read_xattr returns the empty mapping, without reading the volume,
\* for an inode without attribute block, and the empty mapping for a block
\* that starts with the sentinel; otherwise one key per entry before the
\* sentinel, prefix and name, mapped to None exactly when the entry's
\* value size is 0 and to the value's bytes otherwise.
C5_XattrDecoded ==
    /\ (call = [op |-> "read_meta", arg |-> 11]) =>
          /\ result.err = ""
          /\ result.val.xattr = <<>>
          /\ result.obs.xlog = <<>>
    /\ (call = [op |-> "read_meta", arg |-> 12]) =>
          /\ result.err = ""
          /\ DOMAIN result.val.xattr = {KeyOf(vol.xattr.attrs[i]) :
                                           i \in 1..Len(vol.xattr.attrs)}
          /\ \A i \in 1..Len(vol.xattr.attrs) :
                LET a == vol.xattr.attrs[i]
                IN  result.val.xattr[KeyOf(a)] =
                        IF a.value = <<>> THEN None ELSE Bytes(a.value)

----------------------------------------------------------------------------
(* The handle's operations in any order *)

\* The inode numbers asked for: no inode, the root directory, the file
\* under an index node, the symlink, the file with attributes, and the file
\* with a wrong extent magic
ApiInodes == {0, 2, 9, 10, 12, 14}

\* Ext4.read_link(n)
ReadLink(n) ==
    /\ Loaded
    /\ \E r \in {read_link(Ctx, [f |-> ext4, log |-> <<>>], n)} :
           /\ ext4' = r.h.f
           /\ result' = [err |-> r.err, val |-> r.val, obs |-> NoObs]
           /\ iolog' = r.h.log
    /\ call' = [op |-> "read_link", arg |-> n]
    /\ last' = Done
    /\ UNCHANGED <<vol, image, superblock, block_size, scan, conc>>

\* Ext4.root: read_dir(2)
Root ==
    /\ Loaded
    /\ \E r \in {read_dir(Ctx, [f |-> ext4, log |-> <<>>], 2)} :
           /\ r.err # "hang"
           /\ ext4' = r.h.f
           /\ result' = [err |-> r.err, val |-> r.val, obs |-> NoObs]
           /\ iolog' = r.h.log
    /\ call' = [op |-> "root", arg |-> 0]
    /\ last' = Done
    /\ UNCHANGED <<vol, image, superblock, block_size, scan, conc>>

Init ==
    /\ vol \in {FsVol(v2) : v2 \in BOOLEAN}
    /\ image = MkImage(vol)
    /\ InitHandle

Next ==
    \/ Load
    \/ Root
    \/ \E n \in ApiInodes : ReadDir(n)
    \/ \E n \in ApiInodes : ReadFile(n)
    \/ \E n \in ApiInodes : ReadLink(n)
    \/ \E n \in ApiInodes : ReadMeta(n)

Spec == Init /\ [][Next]_vars

\* What a call returns as the first call on a freshly loaded handle on the
\* same image: the error raised and the value
FreshResult(img, c) ==
    LET l  == load(img, <<>>, 1024)
        cx == [img |-> img, sb |-> l.superblock[1], bs |-> l.block_size]
        h  == [f |-> l.h.f, log |-> <<>>]
        r  == CASE c.op = "root"      -> read_dir(cx, h, 2)
                [] c.op = "read_dir"  -> read_dir(cx, h, c.arg)
                [] c.op = "read_file" -> read_file(cx, h, c.arg)
                [] c.op = "read_link" -> read_link(cx, h, c.arg)
                [] c.op = "read_meta" -> read_meta(cx, h, c.arg)
    IN  [err |-> r.err, val |-> r.val]

ApiOps == {"root", "read_dir", "read_file", "read_link", "read_meta"}

\* C6: on a loaded handle every call returns what it returns as the first
\* call on a freshly loaded handle, whatever calls came before and whether
\* they failed, and the superblock and the block size stay the ones load
\* set.
C6_OrderIndependent ==
    call.op \in ApiOps =>
        /\ [err |-> result.err, val |-> result.val] = FreshResult(image, call)
        /\ superblock = load(image, <<>>, 1024).superblock
        /\ block_size = load(image, <<>>, 1024).block_size

\* A file is read right after a failed call that left the cursor elsewhere
C6_Witness ==
    /\ call = [op |-> "read_file", arg |-> 9]
    /\ result.err = ""
    /\ Len(result.val.content) = 2500
    /\ last.op = "read_dir"
    /\ last.arg = 14
    /\ last.err = "Bad extent magic"

----------------------------------------------------------------------------
(* Two workers on one image, one seek or read at a time                    *)
(*                                                                         *)
(* A worker runs read_meta(arg) or read_file(arg).  Its record holds the   *)
(* place it is at (pc: the seek or read it does next) and its locals: the  *)
(* group descriptor, the inode, the buffer of _read_data, the frames of    *)
(* _read_extent (node, header, index of the next record, block number)     *)
(* and h_blocks.  f is the file object of the worker's own handle.         *)

Worker(op, arg, f) ==
    [op |-> op, arg |-> arg, pc |-> "gd_seek", gd |-> <<>>, inode |-> <<>>,
     data |-> <<>>, stack |-> <<>>, h_blocks |-> 0,
     res |-> [err |-> "", val |-> <<>>], done |-> FALSE, raced |-> FALSE,
     f |-> f]

\* The operation raises e
Fail(t, e) ==
    [t EXCEPT !.pc = "done", !.done = TRUE, !.res = [err |-> e, val |-> <<>>],
              !.data = <<>>, !.stack = <<>>]

\* The operation returns v
Finish(t, v) ==
    [t EXCEPT !.pc = "done", !.done = TRUE, !.res = [err |-> "", val |-> v],
              !.data = <<>>, !.stack = <<>>]

\* The seeks among the places
SeekPcs == {"gd_seek", "ino_seek", "e_seek", "i_seek", "x_seek"}

\* The record of the top frame the loop of _read_extent is at (line 300)
CurrentRaw(t) ==
    LET top == t.stack[Len(t.stack)]
    IN  Slice(top.block, 12 + (top.eex * 12), 12 + (top.eex * 12) + 12)

\* The top frame moved to its next record
NextRecord(t) == [t EXCEPT !.stack[Len(t.stack)].eex = @ + 1]

\* _read_extent from the loop test to its next seek (lines 298-312): frames
\* whose records are done return to their callers; when the first frame
\* returns, read_file returns the buffer
RECURSIVE Advance(_)
Advance(t) ==
    IF t.stack = <<>> THEN Finish(t, FileValue(t.inode, t.data))
    ELSE LET top == t.stack[Len(t.stack)]
         IN  IF top.eex >= top.hdr.eh_entries
             THEN Advance([t EXCEPT !.stack = SubSeq(@, 1, Len(@) - 1)])
             ELSE IF Len(CurrentRaw(t)) # 12 THEN Fail(t, "struct.error")
             ELSE [t EXCEPT !.pc = IF top.hdr.eh_depth = 0 THEN "e_seek"
                                   ELSE "i_seek"]

\* A call of _read_extent on the node extent_block read from block blk
\* (lines 295-297), up to its first seek
Enter(t, extent_block, blk) ==
    IF Len(extent_block) < 12 THEN Fail(t, "struct.error")
    ELSE IF make_extent_header(Slice(extent_block, 0, 12)).eh_magic # EXTENT_MAGIC
    THEN Fail(t, "Bad extent magic")
    ELSE Advance([t EXCEPT !.stack =
                     Append(@, [block |-> extent_block,
                                hdr |-> make_extent_header(Slice(extent_block, 0, 12)),
                                eex |-> 0, blk |-> blk])])

\* After _read_inode: read_meta goes on to read_xattr (line 385), read_file
\* to _read_data (lines 315-326).  The buffer of line 323 is dropped when
\* the root node is rejected, so it is built only when the node is entered.
AfterInode(t, inode) ==
    IF t.op = "read_meta"
    THEN IF inode.i_file_acl_lo = 0
         THEN Finish(t, Metadata(t.arg, inode, <<>>))
         ELSE [t EXCEPT !.inode = inode, !.pc = "x_seek"]
    ELSE IF inode.i_size_lo = 0
         THEN Finish(t, FileValue(inode, <<>>))
         ELSE IF IsInline(inode)
         THEN Finish(t, FileValue(inode, InlineData(inode)))
         ELSE IF BitAnd(inode.i_flags, EXTENTS_FL) = 0
         THEN Fail(t, "Mapped Inodes are not supported")
         ELSE IF make_extent_header(Slice(inode.i_block, 0, 12)).eh_magic
                     # EXTENT_MAGIC
         THEN Enter([t EXCEPT !.inode = inode], inode.i_block, 0)
         ELSE Enter([t EXCEPT !.inode = inode, !.data = Zeros(inode.i_size_lo)],
                    inode.i_block, 0)

\* The bytes file.read(n) returns on the file object f, and f afterwards
ReadOn(c, f, n) == FileRead(c.img, [f |-> f, log |-> <<>>], n)

SeekOn(f, off) == [f EXCEPT !.pos = off]

\* The worker's next seek or read on the file object f, with what follows
\* it up to the next one: the worker and the file object afterwards
WorkerStepOf(c, t, f) ==
    CASE t.pc = "gd_seek" ->
           IF c.sb.s_inodes_per_group = 0
           THEN [t |-> Fail(t, "ZeroDivisionError"), f |-> f]
           ELSE The({IF SeekErr(off) # "" THEN [t |-> Fail(t, SeekErr(off)), f |-> f]
                     ELSE [t |-> [t EXCEPT !.pc = "gd_read"], f |-> SeekOn(f, off)] :
                     off \in {GdOffset(c, (t.arg - 1) \div c.sb.s_inodes_per_group)}})
      [] t.pc = "gd_read" ->
           The({IF Len(r.data) # GROUP_DESCRIPTOR_SIZE
                THEN [t |-> Fail(t, "struct.error"), f |-> r.h.f]
                ELSE [t |-> [t EXCEPT !.pc = "ino_seek",
                                      !.gd = make_group_descriptor(r.data)],
                      f |-> r.h.f] :
                r \in {ReadOn(c, f, GROUP_DESCRIPTOR_SIZE)}})
      [] t.pc = "ino_seek" ->
           [t |-> [t EXCEPT !.pc = "ino_read"],
            f |-> SeekOn(f, InodeOffset(c, t.gd,
                                        (t.arg - 1) % c.sb.s_inodes_per_group))]
      [] t.pc = "ino_read" ->
           The({IF Len(r.data) # INODE_SIZE
                THEN [t |-> Fail(t, "struct.error"), f |-> r.h.f]
                ELSE [t |-> AfterInode(t, make_inode(r.data)), f |-> r.h.f] :
                r \in {ReadOn(c, f, INODE_SIZE)}})
      [] t.pc = "e_seek" ->
           [t |-> [t EXCEPT !.pc = "e_read"],
            f |-> SeekOn(f, Mul(make_extent_entry(CurrentRaw(t)).ee_start_lo, c.bs))]
      [] t.pc = "e_read" ->
           The({[t |-> Advance(NextRecord(
                          [t EXCEPT !.data = SliceAssign(@, ExtentStart(c, entry),
                                                         entry.ee_len * c.bs,
                                                         r.data)])),
                 f |-> r.h.f] :
                entry \in {make_extent_entry(CurrentRaw(t))},
                r \in {ReadOn(c, f, make_extent_entry(CurrentRaw(t)).ee_len * c.bs)}})
      [] t.pc = "i_seek" ->
           [t |-> [t EXCEPT !.pc = "i_read"],
            f |-> SeekOn(f, Mul(make_extent_index(CurrentRaw(t)).ei_leaf_lo, c.bs))]
      [] t.pc = "i_read" ->
           The({IF index.ei_leaf_lo \in {t.stack[k].blk : k \in 2..Len(t.stack)}
                THEN [t |-> Fail(t, "RecursionError"), f |-> r.h.f]
                ELSE [t |-> Enter(NextRecord(t), r.data, index.ei_leaf_lo),
                      f |-> r.h.f] :
                index \in {make_extent_index(CurrentRaw(t))},
                r \in {ReadOn(c, f, c.bs)}})
      [] t.pc = "x_seek" ->
           [t |-> [t EXCEPT !.pc = "x_hdr"],
            f |-> SeekOn(f, Mul(t.inode.i_file_acl_lo, c.bs))]
      [] t.pc = "x_hdr" ->
           The({IF Len(r.data) # XATTR_HEADER_SIZE
                THEN [t |-> Fail(t, "struct.error"), f |-> r.h.f]
                ELSE IF make_xattr_header(r.data).h_magic # XATTR_MAGIC
                THEN [t |-> Fail(t, "Bad xattr magic"), f |-> r.h.f]
                ELSE [t |-> [t EXCEPT !.pc = "x_data",
                                      !.h_blocks = make_xattr_header(r.data).h_blocks],
                      f |-> r.h.f] :
                r \in {ReadOn(c, f, XATTR_HEADER_SIZE)}})
      [] t.pc = "x_data" ->
           The({The({IF x.err # "" THEN [t |-> Fail(t, x.err), f |-> r.h.f]
                     ELSE [t |-> Finish(t, Metadata(t.arg, t.inode, x.val)),
                           f |-> r.h.f] :
                     x \in {XattrLoop(r.data, 0, <<>>)}}) :
                r \in {ReadOn(c, f, Mul(c.bs, t.h_blocks) - 32)}})

\* Every worker may take a step
MayStepUnlocked(i) == TRUE

\* With the mutex, a worker steps when the mutex is free or its own
MayStep(i) == conc.mode = "mutex" => conc.lock \in {0, i}

\* Worker i does its next seek or read: on its own handle in mode "own",
\* else on the shared one.  With the mutex it takes the mutex at its first
\* step and gives it back when its operation ends.  by is the worker whose
\* seek set the position of the shared handle (0 after a read); a read at a
\* position another worker's seek set is marked on the worker.
WorkerStep(i) ==
    /\ Loaded
    /\ i \in 1..Len(conc.thr)
    /\ ~conc.thr[i].done
    /\ MayStep(i)
    /\ LET t      == conc.thr[i]
           own    == conc.mode = "own"
           seek   == t.pc \in SeekPcs
           racing == ~own /\ ~seek /\ conc.by \notin {0, i}
       IN  \E st \in {WorkerStepOf(Ctx, t, IF own THEN t.f ELSE ext4)} :
              /\ ext4' = IF own THEN ext4 ELSE st.f
              /\ conc' = [conc EXCEPT
                            !.thr[i] = [st.t EXCEPT !.f = IF own THEN st.f ELSE @,
                                                    !.raced = @ \/ racing],
                            !.lock = IF conc.mode = "mutex" /\ ~st.t.done
                                     THEN i ELSE 0,
                            !.by = IF own THEN @ ELSE IF seek THEN i ELSE 0]
    /\ UNCHANGED <<vol, image, superblock, block_size, call, result, iolog,
                   scan, last>>

\* The operations the workers run: the metadata of the file with attributes
\* and of the root directory, the file under an index node, the symlink
WorkerOps == {<<"read_meta", 12>>, <<"read_meta", 2>>, <<"read_file", 9>>,
              <<"read_file", 10>>}

\* The pairs of operations run together: all but two walks of the index
\* tree at once
WorkerPairs ==
    {p \in WorkerOps \X WorkerOps :
        p[1] # <<"read_file", 9>> \/ p[2] # <<"read_file", 9>>}

Modes == {"none", "mutex", "own"}

InitConc ==
    /\ vol = FsVol(TRUE)
    /\ image = MkImage(vol)
    /\ InitFields
    /\ \E mode \in Modes, p \in WorkerPairs :
          conc = [mode |-> mode, lock |-> 0, by |-> 0,
                  thr |-> <<Worker(p[1][1], p[1][2], load(image, <<>>, 1024).h.f),
                            Worker(p[2][1], p[2][2], load(image, <<>>, 1024).h.f)>>]

NextConc == Load \/ \E i \in 1..2 : WorkerStep(i)

SpecConc == InitConc /\ [][NextConc]_vars

\* What worker i's operation returns when it runs alone
Sequential(i) ==
    FreshResult(image, [op |-> conc.thr[i].op, arg |-> conc.thr[i].arg])

\* C10: when every operation holds one mutex around the handle for its
\* whole duration, or each worker uses its own handle on the same image,
\* every interleaving of the workers' seeks and reads returns the
\* sequential results.
C10_SerializedSequential ==
    conc.mode \in {"mutex", "own"} =>
        \A i \in 1..Len(conc.thr) :
            conc.thr[i].done => conc.thr[i].res = Sequential(i)

\* Without serialization: a worker has read at the position the other
\* worker's seek set, and what it returns differs from its sequential result
C10_Witness ==
    /\ conc.mode = "none"
    /\ \E i \in 1..Len(conc.thr) :
          /\ conc.thr[i].done
          /\ conc.thr[i].raced
          /\ conc.thr[i].res # Sequential(i)

----------------------------------------------------------------------------
(* _read_inode over the group descriptor table                             *)

\* The values of s_desc_size on the volumes.  load reads the field and
\* tests nothing about it (lines 333-339); it rejects the 64bit feature
\* (0x80), and a volume without that feature carries 0.
DescSizes == {0, 16, 32, 64}

\* The inode numbers asked for: the two block groups of the volume
MaxIno == 16

\* The volumes: the files of FsVol, the descriptors of the two block groups
\* 32 bytes apart (64 when s_desc_size is 64), their inode tables in blocks
\* 4 and 5 in either order
GroupVols ==
    {[FsVol(TRUE) EXCEPT !.desc_size = d,
                         !.gd_stride = IF d = 64 THEN 64 ELSE 32,
                         !.itable = t] :
        d \in DescSizes, t \in {<<4, 5>>, <<5, 4>>}}

\* Ext4._read_inode(n)
ReadInode(n) ==
    /\ Loaded
    /\ \E r \in {read_inode(Ctx, [f |-> ext4, log |-> <<>>], n)} :
           /\ ext4' = r.h.f
           /\ result' = [err |-> r.err, val |-> r.inode, obs |-> NoObs]
           /\ iolog' = r.h.log
    /\ call' = [op |-> "_read_inode", arg |-> n]
    /\ last' = Done
    /\ UNCHANGED <<vol, image, superblock, block_size, scan, conc>>

InitGroup ==
    /\ vol \in GroupVols
    /\ image = MkImage(vol)
    /\ InitHandle

NextGroup == Load \/ \E n \in 1..MaxIno : ReadInode(n)

SpecGroup == InitGroup /\ [][NextGroup]_vars

\* Where the volume v keeps the descriptor of block group g
DescriptorAt(v, g) ==
    ((v.first_data_block + 1) * LayoutBs(v)) + (g * v.gd_stride)

\* Where the volume v keeps inode n (-1 past its last block group)
InodeAt(v, n) ==
    LET g == (n - 1) \div v.inodes_per_group
    IN  IF g + 1 \in DOMAIN v.itable
        THEN (v.itable[g + 1] * LayoutBs(v))
             + (((n - 1) % v.inodes_per_group) * v.inode_size)
        ELSE -1

\* The seeks and reads of _read_inode(n) on the loaded handle
InodeTrace(n) == read_inode(Ctx, FileOpen, n).h.log

\* The block group of inode n (line 285)
GroupOf(n) == (n - 1) \div superblock[1].s_inodes_per_group

\* C11: on every volume load accepts, whatever its s_desc_size, and for
\* every inode number n >= 1, _read_inode(n) reads the 32 bytes of the
\* descriptor of block group (n - 1) div s_inodes_per_group and the 128
\* bytes of inode n in that group's inode table; the descriptors read for
\* inode numbers of different block groups do not overlap, and no other
\* inode number is read at the same inode-table offset.
C11_InodeResolved ==
    (call.op = "_read_inode" /\ call.arg >= 1) =>
        /\ result.err = ""
        /\ iolog = <<<<"seek", DescriptorAt(vol, GroupOf(call.arg))>>,
                     <<"read", DescriptorAt(vol, GroupOf(call.arg)),
                       GROUP_DESCRIPTOR_SIZE>>,
                     <<"seek", InodeAt(vol, call.arg)>>,
                     <<"read", InodeAt(vol, call.arg), INODE_SIZE>>>>
        /\ \A m \in 1..MaxIno :
              \A tr \in {InodeTrace(m)} :
                 /\ GroupOf(m) # GroupOf(call.arg) =>
                       \/ tr[1][2] >= iolog[1][2] + GROUP_DESCRIPTOR_SIZE
                       \/ iolog[1][2] >= tr[1][2] + GROUP_DESCRIPTOR_SIZE
                 /\ m # call.arg => tr[3][2] # iolog[3][2]
====
